---- MODULE Spec2Model ----
(***************************************************************************)
(* Model of ApifyKVStoreWidget.execute (src/apify_kv.py).                  *)
(*                                                                         *)
(* Python strings that the code compares, sorts, lower-cases, parses or    *)
(* formats (record keys, operation names) are sequences of Unicode code    *)
(* points, so that str.lower, str.isdigit, int(), str() and the string     *)
(* order used by list.sort are computed the way Python computes them.      *)
(* Opaque strings (payloads, the credential) are TLA+ strings; None is the *)
(* string "None".  The remote key-value store is a function from keys to   *)
(* payloads; every call of execute is one atomic step.                     *)
(***************************************************************************)
EXTENDS Integers, Sequences, FiniteSets

VARIABLES exists, store, now, req, result, calls, picked, prevUp

vars == <<exists, store, now, req, result, calls, picked, prevUp>>

(***************************************************************************)
(* Bounds of the model.                                                    *)
(***************************************************************************)
\* the clock runs from StartClock to MaxClock seconds
MaxClock == 1000
\* max_items ranges over MinItems..MaxItems
MaxItems == 2
\* the remote call of a download that raises is the failAt-th of the call,
\* failAt in 0..MaxFailAt (0: none raises)
MaxFailAt == 4

StartClock == 1000 - 1
MinItems == 0 - 1

(***************************************************************************)
(* Strings as code points.                                                 *)
(***************************************************************************)
None == "None"

\* "upload", "UPLOAD", "download", "Download", "delete"
\* (S_upload and S_download are the literals of lines 64 and 87)
S_upload == <<117, 112, 108, 111, 97, 100>>
S_UPLOAD == <<85, 80, 76, 79, 65, 68>>
S_download == <<100, 111, 119, 110, 108, 111, 97, 100>>
S_Download == <<68, 111, 119, 110, 108, 111, 97, 100>>
S_delete == <<100, 101, 108, 101, 116, 101>>

\* keys another writer may have left in the store:
\* "abc", the superscript two (U+00B2), "253402300800" (year 10000),
\* "100000000000000000000" (10^20)
K_abc == <<97, 98, 99>>
K_sup2 == <<178>>
K_y10k == <<50, 53, 51, 52, 48, 50, 51, 48, 48, 56, 48, 48>>
K_1e20 == <<49, 48, 48, 48, 48, 48, 48, 48, 48, 48, 48, 48, 48, 48, 48, 48, 48, 48, 48, 48, 48>>

ForeignKeys == {K_abc, K_sup2, K_y10k, K_1e20}
ForeignValue == "f"

Credentials == {None, "", "tok"}
Payloads == {"p", "q"}
Values == {None, ""} \cup Payloads
UploadOps == {S_upload, S_UPLOAD}
DownloadOps == {S_Download}
OtherOps == {S_delete}
DefaultMaxItems == 10

\* Python truthiness of an Optional[str]
Truthy(v) == v /= None /\ v /= ""

\* str.lower on the ASCII letters
LowerChar(c) == IF c >= 65 /\ c <= 90 THEN c + 32 ELSE c
Lower(s) == [i \in 1..Len(s) |-> LowerChar(s[i])]

\* the characters int() accepts as decimal digits, and the ones str.isdigit
\* accepts (ASCII digits and the superscript two, which is a digit but not a
\* decimal)
IsDecimalChar(c) == c >= 48 /\ c <= 57
IsDigitChar(c) == IsDecimalChar(c) \/ c = 178
IsDigit(s) == Len(s) > 0 /\ \A i \in 1..Len(s) : IsDigitChar(s[i])

\* the order of Python strings: lexicographic by code point
RECURSIVE StrLess(_, _)
StrLess(a, b) ==
    IF b = <<>> THEN FALSE
    ELSE IF a = <<>> THEN TRUE
    ELSE IF a[1] /= b[1] THEN a[1] < b[1]
    ELSE StrLess(Tail(a), Tail(b))

StrLeq(a, b) == a = b \/ StrLess(a, b)

\* str(n) for a natural number n
RECURSIVE Str(_)
Str(n) == IF n < 10 THEN <<48 + n>> ELSE Str(n \div 10) \o <<48 + (n % 10)>>

(***************************************************************************)
(* int(key) and datetime.fromtimestamp.  The value of a key can exceed the *)
(* integers of the model checker, so an integer is kept as its decimal     *)
(* digits without leading zeros and compared digit-wise.                   *)
(***************************************************************************)
\* int() raises ValueError unless every character is a decimal digit
IntParses(s) == Len(s) > 0 /\ \A i \in 1..Len(s) : IsDecimalChar(s[i])

RECURSIVE StripZeros(_)
StripZeros(s) == IF Len(s) > 1 /\ s[1] = 48 THEN StripZeros(Tail(s)) ELSE s

\* int(s), for a string that parses
ParseInt(s) == StripZeros(s)

\* a < b and a <= b on integers kept as digits
NumLess(a, b) == Len(a) < Len(b) \/ (Len(a) = Len(b) /\ StrLess(a, b))
NumLeq(a, b) == a = b \/ NumLess(a, b)

\* 9999-12-31 23:59:59, the last second a datetime holds: 253402300799
MaxDatetimeTs == <<50, 53, 51, 52, 48, 50, 51, 48, 48, 55, 57, 57>>
\* the last second whose year fits the C library's struct tm: 67768036191676799
MaxLocaltimeTs == <<54, 55, 55, 54, 56, 48, 51, 54, 49, 57, 49, 54, 55, 54, 55, 57, 57>>

\* the outcome of datetime.datetime.fromtimestamp(int(key)): "ok", or the
\* exception raised.  A year past 9999 raises ValueError; a second the C
\* library cannot break down raises OSError, and one that does not fit
\* time_t raises OverflowError, neither of which is a ValueError.
DateKind(key) ==
    IF ~IntParses(key) THEN "ValueError"
    ELSE IF NumLeq(ParseInt(key), MaxDatetimeTs) THEN "ok"
    ELSE IF NumLeq(ParseInt(key), MaxLocaltimeTs) THEN "ValueError"
    ELSE "OverflowError"

\* dt.strftime("%Y-%m-%d %H:%M:%S"), kept as the second it denotes, and the
\* sentinel of line 109
UnknownDate == [known |-> FALSE, ts |-> <<>>]
FormatDate(n) == [known |-> TRUE, ts |-> n]

(***************************************************************************)
(* The list operations of the download path.                               *)
(***************************************************************************)
\* SortDesc without reverse=True
RECURSIVE SortAsc(_)
SortAsc(S) ==
    IF S = {} THEN <<>>
    ELSE LET m == CHOOSE x \in S : \A y \in S : StrLeq(x, y)
         IN  <<m>> \o SortAsc(S \ {m})

\* keys.sort(reverse=True) on the keys of a set
RECURSIVE SortDesc(_)
SortDesc(S) ==
    IF S = {} THEN <<>>
    ELSE LET m == CHOOSE x \in S : \A y \in S : StrLeq(y, x)
         IN  <<m>> \o SortDesc(S \ {m})

\* Slice with the bound off by one: keys[:n + 1]
SliceOffByOne(keys, n) ==
    LET stop == IF n + 1 >= 0 THEN n + 1 ELSE Len(keys) + n + 1
        last == IF stop < 0 THEN 0 ELSE IF stop > Len(keys) THEN Len(keys) ELSE stop
    IN  SubSeq(keys, 1, last)

\* keys[:n] as Python slices: a negative n counts from the end
Slice(keys, n) ==
    LET stop == IF n >= 0 THEN n ELSE Len(keys) + n
        last == IF stop < 0 THEN 0 ELSE IF stop > Len(keys) THEN Len(keys) ELSE stop
    IN  SubSeq(keys, 1, last)

\* the digit-only keys that list_keys returns
DigitKeys(st) == {k \in DOMAIN st : IsDigit(k)}

\* get_record: the record of a key; found is FALSE where the client returns
\* None, for a key the store does not hold
GetRecord(st, key) ==
    IF key \in DOMAIN st THEN [found |-> TRUE, value |-> st[key]]
    ELSE [found |-> FALSE, value |-> None]

\* SetRecord replacing the content of the store by the one record
SetRecordOnly(st, key, value) == [k \in {key} |-> value]

\* set_record: create the record or replace its value
SetRecord(st, key, value) ==
    [k \in DOMAIN st \cup {key} |-> IF k = key THEN value ELSE st[k]]

(***************************************************************************)
(* execute.  A result is the dictionary execute returns; its message is    *)
(* kept as the kind of message, the string formatted into it (the key or   *)
(* the operation) and the exception formatted into it.                     *)
(***************************************************************************)
Result(success, kind, arg, err, data, dates) ==
    [success |-> success, data |-> data, dates |-> dates,
     message |-> [kind |-> kind, arg |-> arg, err |-> err]]

NoResult == Result(FALSE, "none", <<>>, "", <<>>, <<>>)

\* no result: an exception is leaving execute, with values_list and dates_list
\* as they are at that point
Raised(values, dates) == Result(FALSE, "raised", <<>>, "", values, dates)

\* the exception a failing remote call raises
RemoteError == "ApifyApiError"

Call(name, ok) == [name |-> name, ok |-> ok]

\* the loop of lines 100-109 from the i-th selected key on; the i-th
\* get_record is the (2+i)-th remote call of the execution.  acc.exc is the
\* exception that leaves the loop, "" when none does.
RECURSIVE FetchLoop(_, _, _, _, _)
FetchLoop(st, latest, i, failAt, acc) ==
    IF i > Len(latest) THEN acc
    ELSE
      LET key == latest[i]
          record == GetRecord(st, key)
          got == [acc EXCEPT !.calls = Append(@, Call("get_record", TRUE))]
          kind == DateKind(key)
      IN  IF failAt = 2 + i
          THEN [acc EXCEPT !.calls = Append(@, Call("get_record", FALSE)),
                           !.exc = RemoteError]
          ELSE IF ~record.found THEN FetchLoop(st, latest, i + 1, failAt, got)
          ELSE IF kind = "ok"
          THEN FetchLoop(st, latest, i + 1, failAt,
                 [got EXCEPT !.values = Append(@, record.value),
                             !.picked = Append(@, key),
                             !.dates = Append(@, FormatDate(ParseInt(key)))])
          ELSE IF kind \in {"ValueError", "TypeError"}
          THEN FetchLoop(st, latest, i + 1, failAt,
                 [got EXCEPT !.values = Append(@, record.value),
                             !.picked = Append(@, key),
                             !.dates = Append(@, UnknownDate)])
          ELSE [got EXCEPT !.values = Append(@, record.value),
                           !.picked = Append(@, key),
                           !.exc = kind]

\* what the body of the try block does: the result it returns or the
\* exception exc that leaves it, the remote calls it made, and the remote
\* state it leaves
Outcome(exc, res, ex, st, cs, pk) ==
    [exists |-> ex, store |-> st, result |-> res, calls |-> cs, picked |-> pk,
     exc |-> exc]

\* UploadBody without the check of lines 65-71
UploadBodyUnchecked(ex, st, t, cfg, failAt, applied) ==
    LET goc == <<Call("get_or_create", TRUE)>>
        timestamp == Str(t)
        current_date == FormatDate(Str(t))
    IN  IF failAt = 2
        THEN Outcome(RemoteError, Raised(<<>>, <<>>), TRUE,
                     IF applied THEN SetRecord(st, timestamp, cfg.value) ELSE st,
                     Append(goc, Call("set_record", FALSE)), <<>>)
        ELSE Outcome("", Result(TRUE, "uploaded", timestamp, "",
                                <<cfg.value>>, <<current_date>>),
                     TRUE, SetRecord(st, timestamp, cfg.value),
                     Append(goc, Call("set_record", TRUE)), <<timestamp>>)

\* lines 64-85
UploadBody(ex, st, t, cfg, failAt, applied) ==
    LET goc == <<Call("get_or_create", TRUE)>>
        timestamp == Str(t)
        current_date == FormatDate(Str(t))
    IN  IF ~Truthy(cfg.value)
        THEN Outcome("", Result(FALSE, "missing_value", <<>>, "", <<>>, <<>>),
                     TRUE, st, goc, <<>>)
        ELSE IF failAt = 2
        THEN Outcome(RemoteError, Raised(<<>>, <<>>), TRUE,
                     IF applied THEN SetRecord(st, timestamp, cfg.value) ELSE st,
                     Append(goc, Call("set_record", FALSE)), <<>>)
        ELSE Outcome("", Result(TRUE, "uploaded", timestamp, "",
                                <<cfg.value>>, <<current_date>>),
                     TRUE, SetRecord(st, timestamp, cfg.value),
                     Append(goc, Call("set_record", TRUE)), <<timestamp>>)

\* lines 87-116
DownloadBody(ex, st, cfg, failAt) ==
    LET goc == <<Call("get_or_create", TRUE)>>
        keys == SortDesc(DigitKeys(st))
        latest_keys == Slice(keys, cfg.max_items)
        acc == FetchLoop(st, latest_keys, 1, failAt,
                 [calls |-> Append(goc, Call("list_keys", TRUE)),
                  picked |-> <<>>, dates |-> <<>>, values |-> <<>>, exc |-> ""])
    IN  IF failAt = 2
        THEN Outcome(RemoteError, Raised(<<>>, <<>>), TRUE, st,
                     Append(goc, Call("list_keys", FALSE)), <<>>)
        ELSE IF acc.exc /= ""
        THEN Outcome(acc.exc, Raised(acc.values, acc.dates),
                     TRUE, st, acc.calls, acc.picked)
        ELSE Outcome("", Result(TRUE, "downloaded", Str(Len(acc.values)), "",
                                acc.values, acc.dates),
                     TRUE, st, acc.calls, acc.picked)

\* Body testing the credential against None only
BodyEmptyCredential(cred, ex, st, t, cfg, failAt, applied) ==
    IF cred = None
    THEN Outcome("", Result(FALSE, "missing_credential", <<>>, "", <<>>, <<>>),
                 ex, st, <<>>, <<>>)
    ELSE IF failAt = 1
    THEN Outcome(RemoteError, Raised(<<>>, <<>>), ex \/ applied, st,
                 <<Call("get_or_create", FALSE)>>, <<>>)
    ELSE IF Lower(cfg.operation) = S_upload
    THEN UploadBody(ex, st, t, cfg, failAt, applied)
    ELSE IF Lower(cfg.operation) = S_download
    THEN DownloadBody(ex, st, cfg, failAt)
    ELSE Outcome("", Result(FALSE, "unsupported", cfg.operation, "", <<>>, <<>>),
                 TRUE, st, <<Call("get_or_create", TRUE)>>, <<>>)

\* Body with the download path as the else branch
BodyElseDownload(cred, ex, st, t, cfg, failAt, applied) ==
    IF ~Truthy(cred)
    THEN Outcome("", Result(FALSE, "missing_credential", <<>>, "", <<>>, <<>>),
                 ex, st, <<>>, <<>>)
    ELSE IF failAt = 1
    THEN Outcome(RemoteError, Raised(<<>>, <<>>), ex \/ applied, st,
                 <<Call("get_or_create", FALSE)>>, <<>>)
    ELSE IF Lower(cfg.operation) = S_upload
    THEN UploadBody(ex, st, t, cfg, failAt, applied)
    ELSE DownloadBody(ex, st, cfg, failAt)

\* lines 44-124, the body of the try block
Body(cred, ex, st, t, cfg, failAt, applied) ==
    IF ~Truthy(cred)
    THEN Outcome("", Result(FALSE, "missing_credential", <<>>, "", <<>>, <<>>),
                 ex, st, <<>>, <<>>)
    ELSE IF failAt = 1
    THEN Outcome(RemoteError, Raised(<<>>, <<>>), ex \/ applied, st,
                 <<Call("get_or_create", FALSE)>>, <<>>)
    ELSE IF Lower(cfg.operation) = S_upload
    THEN UploadBody(ex, st, t, cfg, failAt, applied)
    ELSE IF Lower(cfg.operation) = S_download
    THEN DownloadBody(ex, st, cfg, failAt)
    ELSE Outcome("", Result(FALSE, "unsupported", cfg.operation, "", <<>>, <<>>),
                 TRUE, st, <<Call("get_or_create", TRUE)>>, <<>>)

\* Catch returning the lists collected so far
CatchKeepsLists(out) ==
    IF out.exc = "" THEN out
    ELSE [out EXCEPT !.result = Result(FALSE, "failed", <<>>, out.exc,
                                       out.result.data, out.result.dates)]

\* lines 126-134: every Exception becomes a failure result with empty data
Catch(out) ==
    IF out.exc = "" THEN out
    ELSE [out EXCEPT !.result = Result(FALSE, "failed", <<>>, out.exc, <<>>, <<>>),
                     !.picked = <<>>]

Execute(cred, ex, st, t, cfg, failAt, applied) ==
    Catch(Body(cred, ex, st, t, cfg, failAt, applied))

(***************************************************************************)
(* The state machine.  exists and store are the remote store; now is the   *)
(* clock in seconds; req, result and calls are the last call of execute:   *)
(* its credential and configuration, what it returned and the remote calls *)
(* it made.  picked and prevUp are history: the keys of the records in     *)
(* result.data, and the record that the call before the last one uploaded, *)
(* if that call was a successful upload.                                   *)
(***************************************************************************)
NoUpload == [key |-> <<>>, value |-> None, some |-> FALSE]

\* the keys of the store in the initial states: none, or one key of another
\* writer
InitKeySets == {{}} \cup {{k} : k \in ForeignKeys}

\* a credential that is present
Credential == "tok"

\* how the remote calls of one execution fail: the at-th call raises (0: none
\* does), and applied tells whether the remote side had carried out the
\* call that raised
FailModes(n) ==
    {[applied |-> FALSE, at |-> 0]} \cup [applied : BOOLEAN, at : 1..n]

Config(operation, value, max_items) ==
    [value |-> value, max_items |-> max_items, operation |-> operation]

Init ==
    /\ exists \in BOOLEAN
    /\ store \in UNION {[S -> {ForeignValue}] :
                          S \in IF exists THEN InitKeySets ELSE {{}}}
    /\ now = StartClock
    /\ req = [cfg |-> Config(<<>>, None, DefaultMaxItems), cred |-> None]
    /\ result = NoResult
    /\ calls = <<>>
    /\ picked = <<>>
    /\ prevUp = NoUpload

IsUploaded(res) == res.success /\ res.message.kind = "uploaded"

\* one call of execute; out is what the call does
Step(cred, cfg, failAt, applied) ==
    \E out \in {Execute(cred, exists, store, now, cfg, failAt, applied)} :
        /\ exists' = out.exists
        /\ store' = out.store
        /\ req' = [cfg |-> cfg, cred |-> cred]
        /\ result' = out.result
        /\ calls' = out.calls
        /\ picked' = out.picked
        /\ prevUp' = IF IsUploaded(result)
                     THEN [key |-> result.message.arg, value |-> result.data[1],
                           some |-> TRUE]
                     ELSE NoUpload
        /\ UNCHANGED now

\* execute without a credential in the environment
MissingCredential ==
    \E cred \in {c \in Credentials : ~Truthy(c)},
       op \in UploadOps \cup DownloadOps \cup OtherOps :
        Step(cred, Config(op, "p", 1), 0, FALSE)

\* an upload; it makes two remote calls
Upload ==
    \E op \in UploadOps, v \in Values, fail \in FailModes(2) :
        Step(Credential, Config(op, v, DefaultMaxItems), fail.at, fail.applied)

\* a download
Download ==
    \E op \in DownloadOps, n \in MinItems..MaxItems, failAt \in 0..MaxFailAt :
        Step(Credential, Config(op, None, n), failAt, FALSE)

\* an operation execute does not know; it makes one remote call
Unsupported ==
    \E op \in OtherOps, fail \in FailModes(1) :
        Step(Credential, Config(op, None, DefaultMaxItems), fail.at, fail.applied)

\* a second passes
Tick ==
    /\ now < MaxClock
    /\ now' = now + 1
    /\ UNCHANGED <<exists, store, req, result, calls, picked, prevUp>>

Next == MissingCredential \/ Upload \/ Download \/ Unsupported \/ Tick

Spec == Init /\ [][Next]_vars

(***************************************************************************)
(* Properties.                                                             *)
(***************************************************************************)
IsUploadOp == Lower(req.cfg.operation) = S_upload
IsDownloadOp == Lower(req.cfg.operation) = S_download
IsOtherOp == req.cfg.operation /= <<>> /\ ~IsUploadOp /\ ~IsDownloadOp

\* the last call had a credential and was a download
IsDownload == Truthy(req.cred) /\ IsDownloadOp

AllCallsOk == \A i \in 1..Len(calls) : calls[i].ok
Called(name) == \E i \in 1..Len(calls) : calls[i].name = name

\* a step that is a call of execute
IsCallStep == now' = now

\* C1: a successful download returns the records newest first: of two
\* returned records, the one returned first has the numerically greater
\* timestamp in its key, whatever the lengths of the keys.
C1_NewestFirst ==
    (IsDownload /\ result.success) =>
        /\ Len(picked) = Len(result.data)
        /\ \A i, j \in 1..Len(picked) :
             (i < j /\ IntParses(picked[i]) /\ IntParses(picked[j]))
                => NumLess(ParseInt(picked[j]), ParseInt(picked[i]))

\* C2, as claimed: whatever the store holds, a download with max_items = 1
\* right after a successful upload of P returns success with data = [P]
\* (stated here for the downloads whose remote calls all succeed, which the
\* claim does not even require).
C2_RoundTrip ==
    (prevUp.some /\ IsDownload /\ req.cfg.max_items = 1 /\ AllCallsOk)
        => (result.success /\ result.data = <<prevUp.value>>)

\* C2, amended: a download with max_items = 1 right after a successful
\* upload of P returns success with data = [P], provided that no remote call
\* of the download fails and that no digit-only key of the store sorts after
\* the uploaded key in the order of strings.
C2_RoundTripAmended ==
    (/\ prevUp.some /\ IsDownload /\ req.cfg.max_items = 1
     /\ AllCallsOk
     /\ \A k \in DigitKeys(store) : StrLeq(k, prevUp.key))
        => (result.success /\ result.data = <<prevUp.value>>)

\* a round trip in a store that holds older records
C2_Witness ==
    /\ prevUp.some /\ IsDownload /\ req.cfg.max_items = 1 /\ AllCallsOk
    /\ \A k \in DigitKeys(store) : StrLeq(k, prevUp.key)
    /\ Cardinality(DigitKeys(store)) >= 2
    /\ result.success /\ result.data = <<prevUp.value>>

\* C3, as claimed: the record a successful upload wrote is in the store,
\* with the payload of that upload, after every later call.
C3_RecordsKept ==
    [][IsUploaded(result) =>
         /\ result.message.arg \in DOMAIN store'
         /\ store'[result.message.arg] = result.data[1]]_vars

\* C3, amended: no call removes a record, and a call changes the payload of
\* a record only if it is an upload with a non-empty value that mints the
\* key of that record again (a second upload in the same second); the record
\* then holds the value of the later upload.
C3_NeverDeletes ==
    [][\A k \in DOMAIN store :
         /\ k \in DOMAIN store'
         /\ store'[k] /= store[k] =>
              /\ Lower(req'.cfg.operation) = S_upload
              /\ Truthy(req'.cfg.value)
              /\ k = Str(now)
              /\ store'[k] = req'.cfg.value]_vars

\* two successful uploads in the same second with different payloads, in a
\* store that holds another record
C3_Witness ==
    /\ IsUploaded(result) /\ prevUp.some
    /\ prevUp.key = result.message.arg
    /\ prevUp.value /= result.data[1]
    /\ store[prevUp.key] = result.data[1]
    /\ Cardinality(DOMAIN store) >= 2

\* C4: a download with max_items = N > 0 returns at most N records and at
\* most as many as the store has digit-only keys, in data and in dates.
C4_AtMostN ==
    (IsDownloadOp /\ req.cfg.max_items > 0) =>
        /\ Len(result.data) <= req.cfg.max_items
        /\ Len(result.dates) <= req.cfg.max_items
        /\ Len(result.data) <= Cardinality(DigitKeys(store))
        /\ Len(result.dates) <= Cardinality(DigitKeys(store))

\* a download that returns N records of a store with more than N digit-only
\* keys and a key that is not digit-only
C4_Witness ==
    /\ IsDownload /\ req.cfg.max_items > 0 /\ result.success
    /\ Len(result.data) = req.cfg.max_items
    /\ Len(result.dates) = req.cfg.max_items
    /\ Cardinality(DigitKeys(store)) > req.cfg.max_items

\* C5: a download with max_items <= 0 returns no record.
C5_NonPositive ==
    (IsDownloadOp /\ req.cfg.max_items <= 0)
        => (result.data = <<>> /\ result.dates = <<>>)

\* C6: a download whose remote calls all succeed returns success with every
\* selected record, and the sentinel in dates at the place of every key that
\* does not convert to a date.
C6_UnknownDate ==
    (IsDownload /\ AllCallsOk) =>
        LET selected == Slice(SortDesc(DigitKeys(store)), req.cfg.max_items)
        IN  /\ result.success
            /\ picked = selected
            /\ Len(result.data) = Len(selected)
            /\ Len(result.dates) = Len(selected)
            /\ \A i \in 1..Len(selected) :
                 DateKind(selected[i]) /= "ok" => result.dates[i] = UnknownDate

\* C7: without a credential (absent or empty) execute returns the failure
\* that names the missing credential, with empty data and dates, makes no
\* remote call and leaves the remote store as it is.
C7_MissingCredential ==
    [][(IsCallStep /\ ~Truthy(req'.cred)) =>
         /\ result' = Result(FALSE, "missing_credential", <<>>, "", <<>>, <<>>)
         /\ calls' = <<>>
         /\ store' = store
         /\ exists' = exists]_vars

\* an upload with an empty credential, refused
C7_Witness ==
    /\ req.cred = "" /\ IsUploadOp /\ Truthy(req.cfg.value)
    /\ result.message.kind = "missing_credential"
    /\ calls = <<>>

\* C8: an upload with an empty or null value returns success = false with
\* empty data, makes no set_record call and leaves the records as they are.
C8_EmptyValue ==
    [][(/\ IsCallStep
        /\ Lower(req'.cfg.operation) = S_upload
        /\ ~Truthy(req'.cfg.value)) =>
         /\ ~result'.success
         /\ result'.data = <<>>
         /\ \A i \in 1..Len(calls') : calls'[i].name /= "set_record"
         /\ store' = store]_vars

\* an upload with an empty value and a credential, refused after
\* get_or_create
C8_Witness ==
    /\ Truthy(req.cred) /\ IsUploadOp /\ req.cfg.value = ""
    /\ result.message.kind = "missing_value"
    /\ Called("get_or_create") /\ AllCallsOk

\* C9: execute always returns a result, and when a remote call failed the
\* result is success = false with a message that describes the error and
\* with empty data and dates.
C9_NothingEscapes ==
    /\ result.message.kind /= "raised"
    /\ ~AllCallsOk =>
         /\ ~result.success
         /\ result.message.kind = "failed"
         /\ result.message.err = RemoteError
         /\ result.data = <<>>
         /\ result.dates = <<>>

\* a download whose second get_record fails after the first record was
\* collected
C9_Witness ==
    /\ IsDownload /\ Len(calls) = 4
    /\ calls[3].name = "get_record" /\ calls[3].ok
    /\ calls[4].name = "get_record" /\ ~calls[4].ok
    /\ result.message.kind = "failed"

RecordCalls == {"set_record", "list_keys", "get_record"}

\* C10, as claimed: with a credential, an operation that is neither upload
\* nor download returns success = false with the message that names the
\* operation and with empty data, and makes no call on the records.
C10_Unsupported ==
    (Truthy(req.cred) /\ IsOtherOp) =>
        /\ ~result.success
        /\ result.message.kind = "unsupported"
        /\ result.message.arg = req.cfg.operation
        /\ result.data = <<>>
        /\ \A n \in RecordCalls : ~Called(n)

\* C10, amended: with a credential, an operation that is neither upload nor
\* download returns success = false with empty data and makes no call on the
\* records; its message names the operation when the get_or_create call
\* succeeds, and describes the error when that call fails.
C10_UnsupportedAmended ==
    (Truthy(req.cred) /\ IsOtherOp) =>
        /\ ~result.success
        /\ result.data = <<>>
        /\ result.dates = <<>>
        /\ \A n \in RecordCalls : ~Called(n)
        /\ AllCallsOk => /\ result.message.kind = "unsupported"
                         /\ result.message.arg = req.cfg.operation
        /\ ~AllCallsOk => /\ result.message.kind = "failed"
                          /\ result.message.err = RemoteError

\* "delete" on a store that holds records
C10_Witness ==
    /\ Truthy(req.cred) /\ req.cfg.operation = S_delete
    /\ result.message.kind = "unsupported"
    /\ result.message.arg = S_delete
    /\ DigitKeys(store) /= {}
    /\ calls = <<Call("get_or_create", TRUE)>>

====
